---- MODULE Spec2Model ----
(***************************************************************************)
(* Realtime connection manager: WebSocketService of                        *)
(* src/product-sample-child-2/src/services/websocket/websocketService.ts.   *)
(*                                                                         *)
(* One manager instance, the WebSocket objects it has created, the two     *)
(* timers it arms, and the subscribers of its EventEmitter.  JavaScript    *)
(* runs one callback at a time, so every public method, every WebSocket    *)
(* event handler and every timer callback is one atomic action.            *)
(***************************************************************************)
EXTENDS Integers, Sequences, FiniteSets, TLC

\* ------------------------------------------------------------------ bounds
\* config.maxReconnectAttempts as passed to the constructor
maxReconnectAttempts == 2
\* WebSocket objects of this manager that can still fire events
MaxSessions == 2
\* setTimeout timers pending at once
MaxTimeouts == 2
\* reconnectAttempts is only bounded by the code on the onclose path; the
\* catch path of connect() is cut off here
AttemptsCap == 4
\* cut-off of the bookkeeping counters attemptsRun and failRun
RunCap == 4
\* listeners registered per event name
NumSubs == 2
\* option maxReconnectAttempts of the useWebSocket hook
hookMaxReconnectAttempts == 2
\* WebSocket objects of the hook that can still fire events or that
\* wsRef refers to
MaxHookSockets == 2
\* setTimeout timers of the hook pending at once
MaxHookTimeouts == 1
\* cut-off of the hook's reconnectAttempts state
HookAttemptsCap == 2
\* urls that configs passed to initializeWebSocket choose from
NumUrls == 3

\* ---------------------------------------------------------------- state
VARIABLES
    ws,                   \* this.ws: "null", or the readyState of the
                          \* WebSocket it refers to
    detached,             \* per readyState, the WebSockets that carry the
                          \* manager's handlers and that this.ws no longer
                          \* refers to
    reconnectAttempts,    \* this.reconnectAttempts
    heartbeatTimer,       \* this.heartbeatTimer # null
    reconnectTimer,       \* this.reconnectTimer: "null", or a handle whose
                          \* timeout is still "pending" or is "spent"
    isIntentionallyClosed,\* this.isIntentionallyClosed
    intervals,            \* setInterval timers alive in the runtime
    timeouts,             \* setTimeout timers pending in the runtime
    ctorThrows,           \* new WebSocket(config.url) throws (bad url)
    subs,                 \* listeners per event name, in subscription order
    op,                   \* the callback that ran last
    src,                  \* who ran it: "api", "timer", or the WebSocket
                          \* it was fired on: "current" (this.ws) or "detached"
    note,                 \* which branch it took
    completion,           \* "return", or "throw" when an exception left it
    emitted,              \* events it emitted, in order
    written,              \* frames it wrote to a transport
    attemptsRun,          \* connection attempts since the last open
    failRun,              \* close events since the last open
    stoppedPending,       \* disconnect() has been called while a timeout of
                          \* scheduleReconnect was pending
    timerAtEmit,          \* per event of emitted: this.heartbeatTimer # null
                          \* while its subscribers ran
    hook,                 \* one mounted useWebSocket: its refs, its state,
                          \* its sockets and timeouts
    instance,             \* the module's singleton: empty for null, or
                          \* the WebSocketService it holds
    call                  \* the last call of initializeWebSocket or
                          \* getWebSocketService: its argument and result

vars == <<ws, detached, reconnectAttempts, heartbeatTimer, reconnectTimer,
          isIntentionallyClosed, intervals, timeouts, ctorThrows, subs,
          op, src, note, completion, emitted, written, attemptsRun, failRun,
          stoppedPending, timerAtEmit, hook, instance, call>>

\* what lives outside the manager instance
others == <<hook, instance, call>>

\* the manager's own fields
fields == <<ws, reconnectAttempts, heartbeatTimer, reconnectTimer,
            isIntentionallyClosed>>

config == <<ctorThrows, subs>>

NULL == "null"

CONNECTING == "CONNECTING"
OPEN == "OPEN"
CLOSING == "CLOSING"
CLOSED == "CLOSED"

\* the states in which a WebSocket can still fire an event
LiveStates == {CONNECTING, OPEN, CLOSING}

\* readyState CLOSING because the manager called close() on the socket;
\* CLOSING by itself is left for a closing handshake the peer started
CLOSE_CALLED == "CLOSING by close()"

SocketStates == LiveStates \cup {CLOSE_CALLED}

\* ------------------------------------------------------------ EventEmitter
EventNames == {"connected", "disconnected", "message",
               "message:statusUpdate", "error", "messageSent"}

AllOk == [e \in EventNames |-> [i \in 1..NumSubs |-> "ok"]]

\* subscriber sets: all well behaved; the first subscriber of one event
\* raises; nobody listens for 'error'
Raising == {"connected", "disconnected", "message"}

SubConfigs ==
    {AllOk}
    \cup {[AllOk EXCEPT ![e][1] = "throw"] : e \in Raising}
    \cup {[AllOk EXCEPT !["error"] = <<>>]}

Listeners(name) == IF name \in DOMAIN subs THEN subs[name] ELSE <<>>

FirstThrow(L) ==
    IF \E i \in 1..Len(L) : L[i] = "throw"
    THEN CHOOSE i \in 1..Len(L) :
            L[i] = "throw" /\ \A j \in 1..(i - 1) : L[j] # "throw"
    ELSE 0

\* emit(name, arg): listeners run in order until one raises; an 'error'
\* nobody listens for is raised by emit itself
Delivered(name) ==
    LET L == Listeners(name)
    IN  IF FirstThrow(L) = 0 THEN Len(L) ELSE FirstThrow(L)

EmitThrows(name) ==
    \/ FirstThrow(Listeners(name)) # 0
    \/ name = "error" /\ Len(Listeners(name)) = 0

Ev(name, arg) == [name |-> name, arg |-> arg, delivered |-> Delivered(name)]

\* ---------------------------------------------------------------- sockets
\* the WebSockets of m that can still fire an event
Live(m) ==
    (IF m.ws \in LiveStates THEN 1 ELSE 0)
    + m.detached[CONNECTING] + m.detached[OPEN] + m.detached[CLOSING]
    + m.detached[CLOSE_CALLED]

\* this.ws is overwritten or set to null: the WebSocket it referred to stays
\* around for as long as it can fire an event
Detach(m) ==
    IF m.ws \in SocketStates THEN [m EXCEPT !.detached[m.ws] = @ + 1] ELSE m

\* the arguments of this.ws.close() in cleanup(): none
closeArgs == <<>>

\* the close event of a handshake that close(code, reason) started: the
\* peer echoes the status it was sent, and none was sent without arguments
NoStatus == 1005
CloseCalledEvent ==
    [code |-> IF Len(closeArgs) >= 1 THEN closeArgs[1] ELSE NoStatus,
     reason |-> IF Len(closeArgs) >= 2 THEN closeArgs[2] ELSE ""]

\* the close event of a connection that was lost or could not be made
Abnormal == 1006
FailedEvent == [code |-> Abnormal, reason |-> ""]

\* the close events of a handshake the peer started: its status and reason
GoingAway == 1001
PeerCloses == {[code |-> NoStatus, reason |-> ""],
               [code |-> GoingAway, reason |-> "going away"]}

\* WebSocket.close() on this.ws: starts the closing handshake unless the
\* socket is closing or closed already
CloseSocket(m) ==
    IF m.ws \in {CONNECTING, OPEN} THEN [m EXCEPT !.ws = CLOSE_CALLED] ELSE m

\* a WebSocket of the manager: the one this.ws refers to, or a detached one
Sockets == {"current", "detached"}

InState(m, k, st) ==
    IF k = "current" THEN m.ws = st ELSE m.detached[st] > 0

\* the readyState of socket k goes from st to to
SetState(m, k, st, to) ==
    IF k = "current" THEN [m EXCEPT !.ws = to]
    ELSE IF to = CLOSED THEN [m EXCEPT !.detached[st] = @ - 1]
    ELSE [m EXCEPT !.detached[st] = @ - 1, !.detached[to] = @ + 1]

\* ------------------------------------------------------ hook, singleton
\* the values the hook's reconnectAttempts state can take; a closure made
\* by a render holds the value of that render
Caps == 0..HookAttemptsCap

FREE == "free"

\* useWebSocket({url, ...}) after its first render, before its effect ran:
\* useState(false), useState(0), useRef(null), useRef()
useWebSocket(urlBad) ==
    [urlBad |-> urlBad,            \* new WebSocket(url) throws
     mounted |-> TRUE,
     effectRan |-> FALSE,
     rendered |-> 0,               \* reconnectAttempts of the last render
     reconnectAttempts |-> 0,
     isConnected |-> FALSE,
     status |-> "",                \* last updateConnectionStatus dispatched
     wsRef |-> 0,                  \* wsRef.current: 0 for null, or a socket
     sockets |-> [s \in 1..MaxHookSockets |-> [state |-> FREE, cap |-> 0]],
     timeoutRef |-> [set |-> FALSE, cap |-> 0, pending |-> FALSE],
     pending |-> [c \in Caps |-> 0],  \* timeouts pending, by the
                                       \* reconnectAttempts of their closure
     stopped |-> FALSE,            \* disconnect() was the last of connect()
                                   \* and disconnect() to be called
     op |-> "render",
     note |-> "",
     created |-> 0,                \* sockets the last callback constructed
     armed |-> 0]                  \* timeouts the last callback armed

\* no call of initializeWebSocket or getWebSocketService yet; arg, result
\* and first hold at most one value each
NoCall ==
    [op |-> "none",
     arg |-> {},             \* the config passed
     result |-> {},          \* the instance returned
     threw |-> FALSE,        \* the call raised an Error
     first |-> {},           \* the config of the first initializeWebSocket
     constructed |-> 0]      \* WebSocketService objects constructed so far

\* ------------------------------------------------------------------- Init
\* a manager right after its constructor
InitManager ==
    /\ ws = NULL
    /\ detached = [st \in SocketStates |-> 0]
    /\ reconnectAttempts = 0
    /\ heartbeatTimer = FALSE
    /\ reconnectTimer = "null"
    /\ isIntentionallyClosed = FALSE
    /\ intervals = 0
    /\ timeouts = 0
    /\ ctorThrows \in BOOLEAN
    /\ subs \in SubConfigs
    /\ op = "new"
    /\ src = "api"
    /\ note = ""
    /\ completion = "return"
    /\ emitted = <<>>
    /\ written = <<>>
    /\ attemptsRun = 0
    /\ failRun = 0
    /\ stoppedPending = FALSE
    /\ timerAtEmit = <<>>

\* one manager; no hook has connected and no singleton call has been made
Init ==
    /\ InitManager
    /\ hook = useWebSocket(FALSE)
    /\ instance = {}
    /\ call = NoCall

\* the state a callback starts from: the manager and the runtime as they
\* are, nothing emitted or written yet
Now ==
    [ws |-> ws, detached |-> detached,
     reconnectAttempts |-> reconnectAttempts,
     heartbeatTimer |-> heartbeatTimer, reconnectTimer |-> reconnectTimer,
     isIntentionallyClosed |-> isIntentionallyClosed,
     intervals |-> intervals, timeouts |-> timeouts,
     note |-> "", completion |-> "return", emitted |-> <<>>,
     written |-> <<>>, attemptsRun |-> attemptsRun,
     failRun |-> failRun, stoppedPending |-> stoppedPending,
     timerAtEmit |-> <<>>]

\* the state a callback leaves behind
Commit(m, o, from) ==
    /\ ws' = m.ws
    /\ detached' = m.detached
    /\ reconnectAttempts' = m.reconnectAttempts
    /\ heartbeatTimer' = m.heartbeatTimer
    /\ reconnectTimer' = m.reconnectTimer
    /\ isIntentionallyClosed' = m.isIntentionallyClosed
    /\ intervals' = m.intervals
    /\ timeouts' = m.timeouts
    /\ note' = m.note
    /\ completion' = m.completion
    /\ emitted' = m.emitted
    /\ written' = m.written
    /\ attemptsRun' = m.attemptsRun
    /\ failRun' = m.failRun
    /\ stoppedPending' = m.stoppedPending
    /\ timerAtEmit' = m.timerAtEmit
    /\ op' = o
    /\ src' = from
    /\ UNCHANGED config
    /\ UNCHANGED others

\* this.emit(name, arg)
emit(m, name, arg) ==
    [m EXCEPT !.emitted = Append(@, Ev(name, arg)),
              !.timerAtEmit = Append(@, m.heartbeatTimer)]

Throw(m) == [m EXCEPT !.completion = "throw"]

\* this.emit('error', e) as the last statement of a callback
emitError(m, arg) ==
    IF EmitThrows("error") THEN Throw(emit(m, "error", arg))
    ELSE emit(m, "error", arg)

\* ------------------------------------------------------- timers of the code
\* scheduleReconnect(): the counter goes up and a timeout is armed; the
\* handle of an earlier timeout is overwritten, not cleared
scheduleReconnect(m) ==
    [m EXCEPT !.reconnectAttempts = @ + 1,
              !.reconnectTimer = "pending",
              !.timeouts = @ + 1]

stopHeartbeat(m) ==
    IF m.heartbeatTimer
    THEN [m EXCEPT !.heartbeatTimer = FALSE, !.intervals = @ - 1]
    ELSE m

\* startHeartbeat(): stopHeartbeat(), then setInterval
startHeartbeat(m) ==
    LET m1 == stopHeartbeat(m)
    IN  [m1 EXCEPT !.heartbeatTimer = TRUE, !.intervals = @ + 1]

\* cleanup() that announces the shutdown itself when it closes the socket
cleanup_announcing(m) ==
    LET m1 == stopHeartbeat(m)
        m2 == IF m1.reconnectTimer # "null"
              THEN [m1 EXCEPT !.reconnectTimer = "null",
                              !.timeouts = IF m1.reconnectTimer = "pending"
                                           THEN @ - 1 ELSE @]
              ELSE m1
    IN  IF m2.ws # NULL
        THEN emit([Detach(CloseSocket(m2)) EXCEPT !.ws = NULL],
                  "disconnected", CloseCalledEvent)
        ELSE m2

\* cleanup(): both timers cleared, the socket closed and forgotten
cleanup(m) ==
    LET m1 == stopHeartbeat(m)
        m2 == IF m1.reconnectTimer # "null"
              THEN [m1 EXCEPT !.reconnectTimer = "null",
                              !.timeouts = IF m1.reconnectTimer = "pending"
                                           THEN @ - 1 ELSE @]
              ELSE m1
    IN  IF m2.ws # NULL
        THEN [Detach(CloseSocket(m2)) EXCEPT !.ws = NULL]
        ELSE m2

\* isConnected(): this.ws?.readyState === WebSocket.OPEN
isConnected(m) == m.ws = OPEN

\* ---------------------------------------------------------------- connect
\* connect() without the check of the socket it holds
connect_replacing(m, byTimer) ==
    LET run == IF byTimer THEN m.attemptsRun + 1 ELSE 1
    IN
    IF ctorThrows
    THEN [scheduleReconnect(m) EXCEPT !.note = "threw", !.attemptsRun = run]
    ELSE [Detach(m) EXCEPT !.ws = CONNECTING,
                           !.note = IF isConnected(m) THEN "already"
                                    ELSE "created",
                           !.attemptsRun = run]

\* connect()
connect(m, byTimer) ==
    LET run == IF byTimer THEN m.attemptsRun + 1 ELSE 1
    IN
    IF isConnected(m)
    THEN [m EXCEPT !.note = "already"]
    ELSE IF ctorThrows
    THEN [scheduleReconnect(m) EXCEPT !.note = "threw", !.attemptsRun = run]
    ELSE [Detach(m) EXCEPT !.ws = CONNECTING,
                           !.note = "created",
                           !.attemptsRun = run]

\* connect() gets as far as new WebSocket
Creates(m) == ~isConnected(m)

\* the model has room for what connect() is about to do
Room(m) ==
    Creates(m) =>
        IF ctorThrows
        THEN m.timeouts < MaxTimeouts /\ m.reconnectAttempts < AttemptsCap
        ELSE Live(m) < MaxSessions

Connect ==
    /\ Room(Now)
    /\ Commit(connect(Now, FALSE), "connect", "api")

\* disconnect()
disconnect(m) ==
    cleanup([m EXCEPT !.isIntentionallyClosed = TRUE,
                      !.note = IF m.isIntentionallyClosed
                               THEN "again" ELSE "first",
                      !.stoppedPending = @ \/ m.timeouts > 0])

Disconnect == Commit(disconnect(Now), "disconnect", "api")

\* ------------------------------------------------------------------- send
MessageTypes == {"statusUpdate"}
Payloads == {"plain", "circular"}

\* JSON.stringify raises on a payload that refers to itself
StringifyThrows(payload) == payload = "circular"

\* this.ws.send(text): the frame and the state of the socket it goes to
Frame(m, type) == [state |-> m.ws, type |-> type]

\* send() with the failure handled inside: a reconnect is scheduled when the
\* socket is not open
send_retrying(m, type, payload) ==
    IF ~isConnected(m)
    THEN emitError(scheduleReconnect([m EXCEPT !.note = "notOpen"]), "notConnected")
    ELSE IF StringifyThrows(payload)
    THEN emitError([m EXCEPT !.note = "caught"], "stringify")
    ELSE LET m1 == [m EXCEPT !.written = Append(@, Frame(m, type)),
                             !.note = "sent"]
             m2 == emit(m1, "messageSent", type)
         IN  IF EmitThrows("messageSent")
             THEN emitError([m2 EXCEPT !.note = "caught"], "listener")
             ELSE m2

\* send(message)
send(m, type, payload) ==
    IF ~isConnected(m)
    THEN emitError([m EXCEPT !.note = "notOpen"], "notConnected")
    ELSE IF StringifyThrows(payload)
    THEN emitError([m EXCEPT !.note = "caught"], "stringify")
    ELSE LET m1 == [m EXCEPT !.written = Append(@, Frame(m, type)),
                             !.note = "sent"]
             m2 == emit(m1, "messageSent", type)
         IN  IF EmitThrows("messageSent")
             THEN emitError([m2 EXCEPT !.note = "caught"], "listener")
             ELSE m2

\* sendTyped(type, payload)
sendTyped(m, type, payload) == send(m, type, payload)

Send(type, payload) == Commit(sendTyped(Now, type, payload), "send", "api")

\* --------------------------------------------------------- inbound frames
FrameOk == "{\"type\":\"statusUpdate\",\"payload\":1,\"timestamp\":7}"
FrameCut == "{\"type\":\"statusUpd"
FrameNull == "null"
FrameEmpty == "{}"
RawFrames == {FrameOk, FrameCut, FrameNull, FrameEmpty}

\* JSON.parse(text): a value, or a SyntaxError
JSONParse(text) ==
    CASE text = FrameOk -> [ok |-> TRUE, value |-> "envelope", type |-> "statusUpdate"]
      [] text = FrameEmpty -> [ok |-> TRUE, value |-> "object", type |-> "undefined"]
      [] text = FrameNull -> [ok |-> TRUE, value |-> "null", type |-> ""]
      [] OTHER -> [ok |-> FALSE, value |-> "", type |-> ""]

\* ---------------------------------------------------- setupEventHandlers
\* onopen that keeps the counter
onopen_keeping(m) ==
    LET m1 == [m EXCEPT !.note = IF m.reconnectAttempts > 0
                                 THEN "reset" ELSE "fresh",
                        !.attemptsRun = 0, !.failRun = 0]
        m2 == emit(m1, "connected", "")
    IN  IF EmitThrows("connected") THEN Throw(m2) ELSE startHeartbeat(m2)

\* ws.onopen
onopen(m) ==
    LET m1 == [m EXCEPT !.reconnectAttempts = 0,
                        !.note = IF m.reconnectAttempts = 0 THEN "fresh"
                                 ELSE IF m.reconnectAttempts < maxReconnectAttempts
                                 THEN "reset" ELSE "resetFull",
                        !.attemptsRun = 0, !.failRun = 0]
        m2 == emit(m1, "connected", "")
    IN  IF EmitThrows("connected") THEN Throw(m2) ELSE startHeartbeat(m2)

\* ws.onmessage
onmessage(m, data) ==
    LET p == JSONParse(data)
        name == "message:" \o p.type
        m1 == emit(m, "message", p.value)
    IN  IF ~p.ok THEN emitError(m, "parse")
        ELSE IF EmitThrows("message") THEN emitError(m1, "listener")
        ELSE IF p.value = "null" THEN emitError(m1, "typeError")
        ELSE IF EmitThrows(name) THEN emitError(emit(m1, name, ""), "listener")
        ELSE emit(m1, name, "")

\* ws.onerror
onerror(m) == emitError(m, "transport")

\* onclose that announces the loss only when it gives up
onclose_quiet(m, event) ==
    LET m1 == [m EXCEPT !.failRun = IF @ < RunCap THEN @ + 1 ELSE @]
        m2 == stopHeartbeat(m1)
    IN  IF ~m2.isIntentionallyClosed
           /\ m2.reconnectAttempts < maxReconnectAttempts
        THEN [scheduleReconnect(m2) EXCEPT !.note = "scheduled"]
        ELSE IF EmitThrows("disconnected")
        THEN Throw([emit(m2, "disconnected", event) EXCEPT !.note = "aborted"])
        ELSE [emit(m2, "disconnected", event)
                 EXCEPT !.note = IF m2.isIntentionallyClosed
                                 THEN "intentional" ELSE "exhausted"]

\* ws.onclose
onclose(m, event) ==
    LET m1 == emit([m EXCEPT !.failRun = IF @ < RunCap THEN @ + 1 ELSE @],
                   "disconnected", event)
        m2 == stopHeartbeat(m1)
    IN  IF EmitThrows("disconnected") THEN Throw([m1 EXCEPT !.note = "aborted"])
        ELSE IF ~m2.isIntentionallyClosed
                /\ m2.reconnectAttempts < maxReconnectAttempts
        THEN [scheduleReconnect(m2) EXCEPT !.note = "scheduled"]
        ELSE [m2 EXCEPT !.note = IF m2.isIntentionallyClosed
                                 THEN "intentional" ELSE "exhausted"]

\* ------------------------------------------------------- transport events
\* the connection of socket k is established
TransportOpen(k) ==
    /\ InState(Now, k, CONNECTING)
    /\ Commit(onopen(SetState(Now, k, CONNECTING, OPEN)), "open", k)

\* a text frame arrives on socket k
TransportMessage(k, data) ==
    /\ InState(Now, k, OPEN)
    /\ Commit(onmessage(Now, data), "message", k)

\* the peer starts the closing handshake of socket k: no event yet
TransportClosing(k) ==
    /\ InState(Now, k, OPEN)
    /\ Commit(SetState(Now, k, OPEN, CLOSING), "closing", k)

\* the connection is gone: 'error' first when it failed, then 'close'
CloseEvents(m, failed, event) ==
    LET m1 == IF failed THEN onerror(m) ELSE m
        m2 == onclose([m1 EXCEPT !.completion = "return"], event)
    IN  IF m1.completion = "throw" THEN Throw(m2) ELSE m2

\* the close event of a socket in state st: abnormal closure when the
\* connection failed, the echo of close() when the manager closed it, else
\* what the peer sent
CloseEventOf(st, failed, peer) ==
    IF failed THEN FailedEvent
    ELSE IF st = CLOSE_CALLED THEN CloseCalledEvent
    ELSE peer

\* what the peer sent matters to a clean close that the peer started
PeerChoices(st, failed) ==
    IF ~failed /\ st \in {OPEN, CLOSING} THEN PeerCloses
    ELSE {CHOOSE peer \in PeerCloses : TRUE}

TransportClose(k, st, failed, peer) ==
    LET m == CloseEvents(SetState(Now, k, st, CLOSED), failed,
                         CloseEventOf(st, failed, peer))
    IN  /\ InState(Now, k, st)
        /\ peer \in PeerChoices(st, failed)
        /\ m.timeouts <= MaxTimeouts
        /\ Commit(m, "close", k)

\* ----------------------------------------------------------------- timers
\* the callback of scheduleReconnect's setTimeout
reconnectCallback(m) ==
    IF ~m.isIntentionallyClosed THEN connect(m, TRUE)
    ELSE [m EXCEPT !.note = "suppressed"]

\* a pending timeout fires: the one this.reconnectTimer refers to
\* (tracked), or one whose handle has been overwritten
Fired(m, tracked) ==
    [m EXCEPT !.timeouts = @ - 1,
              !.reconnectTimer = IF tracked THEN "spent" ELSE @]

ReconnectTimerFires(tracked) ==
    /\ IF tracked THEN reconnectTimer = "pending"
       ELSE timeouts > (IF reconnectTimer = "pending" THEN 1 ELSE 0)
    /\ ~isIntentionallyClosed => Room(Fired(Now, tracked))
    /\ attemptsRun < RunCap
    /\ Commit(reconnectCallback(Fired(Now, tracked)), "timer", "timer")

\* a heartbeat callback that writes to whatever socket the manager holds
heartbeatCallback_unguarded(m) ==
    IF m.ws # NULL
    THEN [m EXCEPT !.written = Append(@, Frame(m, "heartbeat")), !.note = "sent"]
    ELSE [m EXCEPT !.note = "skipped"]

\* the callback of startHeartbeat's setInterval
heartbeatCallback(m) ==
    IF isConnected(m) THEN sendTyped(m, "heartbeat", "plain")
    ELSE [m EXCEPT !.note = "skipped"]

HeartbeatTick ==
    /\ intervals > 0
    /\ Commit(heartbeatCallback(Now), "heartbeat", "timer")

\* ------------------------------------------------------------------- Next
Next ==
    \/ Connect
    \/ Disconnect
    \/ \E type \in MessageTypes, payload \in Payloads : Send(type, payload)
    \/ \E k \in Sockets : TransportOpen(k)
    \/ \E k \in Sockets, data \in RawFrames : TransportMessage(k, data)
    \/ \E k \in Sockets : TransportClosing(k)
    \/ \E k \in Sockets, st \in SocketStates, failed \in BOOLEAN,
          peer \in PeerCloses : TransportClose(k, st, failed, peer)
    \/ \E tracked \in BOOLEAN : ReconnectTimerFires(tracked)
    \/ HeartbeatTick

Spec == Init /\ [][Next]_vars

\* ------------------------------------------------- the recovery scenario
\* The manager is started once and never stopped, the constructor accepts
\* the url, and the transport lets fewer than maxReconnectAttempts
\* connections in a row end without one of them opening.  Pending timeouts
\* fire and a connection that is not refused is established.
InitLive == Init /\ ~ctorThrows

Start == op = "new" /\ Connect

TransportCloseInBudget(k, st, failed, peer) ==
    /\ failRun + 1 < maxReconnectAttempts
    /\ TransportClose(k, st, failed, peer)

NextLive ==
    \/ Start
    \/ \E type \in MessageTypes, payload \in Payloads : Send(type, payload)
    \/ \E k \in Sockets : TransportOpen(k)
    \/ \E k \in Sockets, data \in RawFrames : TransportMessage(k, data)
    \/ \E k \in Sockets : TransportClosing(k)
    \/ \E k \in Sockets, st \in SocketStates, failed \in BOOLEAN,
          peer \in PeerCloses : TransportCloseInBudget(k, st, failed, peer)
    \/ \E tracked \in BOOLEAN : ReconnectTimerFires(tracked)
    \/ HeartbeatTick

SpecLive ==
    /\ InitLive
    /\ [][NextLive]_vars
    /\ WF_vars(\E tracked \in BOOLEAN : ReconnectTimerFires(tracked))
    /\ WF_vars(\E k \in Sockets : TransportOpen(k))

\* --------------------------------------------------- the retry scenario
\* The manager is started once with a url the constructor accepts and is
\* left alone: connection attempts fail one after the other, until one is
\* established or the manager gives up; the session that opened stays open.
AttemptFails(k, failed, peer) == TransportClose(k, CONNECTING, failed, peer)

NextRetry ==
    \/ Start
    \/ \E type \in MessageTypes, payload \in Payloads : Send(type, payload)
    \/ \E k \in Sockets : TransportOpen(k)
    \/ \E k \in Sockets, data \in RawFrames : TransportMessage(k, data)
    \/ \E k \in Sockets, failed \in BOOLEAN, peer \in PeerCloses :
          AttemptFails(k, failed, peer)
    \/ \E tracked \in BOOLEAN : ReconnectTimerFires(tracked)
    \/ HeartbeatTick

SpecRetry == InitLive /\ [][NextRetry]_vars

\* ------------------------------------------------------ useWebSocket hook
\* the manager instance, which the hook does not touch
manager == <<ws, detached, reconnectAttempts, heartbeatTimer, reconnectTimer,
             isIntentionallyClosed, intervals, timeouts, ctorThrows, subs,
             op, src, note, completion, emitted, written, attemptsRun,
             failRun, stoppedPending, timerAtEmit>>

\* the state a callback of the hook starts from
HookNow == [hook EXCEPT !.note = "", !.created = 0, !.armed = 0]

\* the state a callback of the hook leaves behind
HookCommit(h, o) ==
    /\ hook' = [h EXCEPT !.op = o]
    /\ UNCHANGED <<manager, instance, call>>

\* a state setter: React drops the update of a component that is unmounted
setIsConnected(h, v) ==
    IF h.mounted THEN [h EXCEPT !.isConnected = v] ELSE h

setReconnectAttempts(h, v) ==
    IF h.mounted THEN [h EXCEPT !.reconnectAttempts = v] ELSE h

\* wsRef.current is overwritten or set to null: a closed socket nobody
\* refers to is gone, another one stays for the events it can still fire
Unref(h) ==
    IF h.wsRef # 0 /\ h.sockets[h.wsRef].state = CLOSED
    THEN [h EXCEPT !.sockets[h.wsRef].state = FREE, !.wsRef = 0]
    ELSE [h EXCEPT !.wsRef = 0]

FreeSlots(h) == {s \in 1..MaxHookSockets : h.sockets[s].state = FREE}

\* connect of the render whose reconnectAttempts was cap: the handlers it
\* installs are closures over that value
hookConnect(h, cap) ==
    LET h0 == [h EXCEPT !.stopped = FALSE]
        h1 == Unref(h0)
        s == CHOOSE s \in FreeSlots(h1) : \A t \in FreeSlots(h1) : s <= t
    IN  IF h.wsRef # 0 /\ h.sockets[h.wsRef].state = OPEN
        THEN [h0 EXCEPT !.note = "already"]
        ELSE IF h.urlBad
        THEN [h0 EXCEPT !.status = "error", !.note = "threw"]
        ELSE [h1 EXCEPT !.wsRef = s,
                        !.sockets[s] = [state |-> CONNECTING, cap |-> cap],
                        !.created = @ + 1,
                        !.note = "created"]

\* hookConnect gets as far as new WebSocket and has a slot for it
HookCreates(h) ==
    ~(h.wsRef # 0 /\ h.sockets[h.wsRef].state = OPEN) /\ ~h.urlBad

HookRoom(h) == HookCreates(h) => FreeSlots(Unref(h)) # {}

\* disconnect of the hook
hookDisconnect(h) ==
    LET r == h.timeoutRef
        h1 == IF r.set /\ r.pending
              THEN [h EXCEPT !.timeoutRef.pending = FALSE,
                             !.pending[r.cap] = @ - 1]
              ELSE h
        w == h1.wsRef
        h2 == IF w # 0
              THEN Unref([h1 EXCEPT !.sockets[w].state =
                              IF @ \in {CONNECTING, OPEN}
                              THEN CLOSE_CALLED ELSE @])
              ELSE h1
    IN  [setReconnectAttempts(setIsConnected(h2, FALSE), 0)
            EXCEPT !.stopped = TRUE]

\* wsRef.current.onopen
hookOnopen(h) ==
    [setReconnectAttempts(setIsConnected(h, TRUE), 0)
        EXCEPT !.status = "connected"]

\* wsRef.current.onmessage
hookOnmessage(h, data) ==
    [h EXCEPT !.note = IF JSONParse(data).ok THEN "dispatched"
                       ELSE "parseError"]

\* wsRef.current.onerror
hookOnerror(h) == [h EXCEPT !.status = "error"]

\* wsRef.current.onclose, installed by the render whose reconnectAttempts
\* was cap
hookOnclose(h, cap) ==
    LET h1 == [setIsConnected(h, FALSE) EXCEPT !.status = "disconnected"]
    IN  IF cap < hookMaxReconnectAttempts
        THEN [h1 EXCEPT !.timeoutRef =
                            [set |-> TRUE, cap |-> cap, pending |-> TRUE],
                        !.pending[cap] = @ + 1,
                        !.armed = @ + 1,
                        !.note = "scheduled"]
        ELSE [h1 EXCEPT !.note = "exhausted"]

\* the callback of the setTimeout of that onclose
hookTimerCallback(h, cap) ==
    hookConnect(setReconnectAttempts(h, h.reconnectAttempts + 1), cap)

\* sendMessage(message)
sendMessage(h) ==
    [h EXCEPT !.note = IF h.wsRef # 0 /\ h.sockets[h.wsRef].state = OPEN
                       THEN "sent" ELSE "notOpen"]

RECURSIVE SumUpTo(_, _)
SumUpTo(f, n) == IF n < 0 THEN 0 ELSE f[n] + SumUpTo(f, n - 1)

\* the timeouts of the hook that are pending
PendingTimeouts(h) == SumUpTo(h.pending, HookAttemptsCap)

\* the effect of the first render: connect()
HookEffect ==
    /\ hook.mounted /\ ~hook.effectRan
    /\ HookRoom(HookNow)
    /\ HookCommit(hookConnect([HookNow EXCEPT !.effectRan = TRUE],
                              hook.rendered), "effect")

\* a render with a new reconnectAttempts makes a new connect, so the
\* effect is run again: its cleanup disconnect(), then the new connect()
HookRerender ==
    LET h1 == hookDisconnect([HookNow EXCEPT
                                  !.rendered = hook.reconnectAttempts])
    IN  /\ hook.mounted /\ hook.effectRan
        /\ hook.reconnectAttempts # hook.rendered
        /\ HookRoom(h1)
        /\ HookCommit(hookConnect(h1, hook.reconnectAttempts), "rerender")

\* the component calls the reconnect it was returned
HookReconnect ==
    /\ hook.mounted /\ hook.effectRan
    /\ HookRoom(HookNow)
    /\ HookCommit(hookConnect(HookNow, hook.rendered), "reconnect")

\* the component calls the disconnect it was returned
HookDisconnect ==
    /\ hook.mounted /\ hook.effectRan
    /\ HookCommit(hookDisconnect(HookNow), "disconnect")

\* the component is unmounted: the cleanup of the effect
HookUnmount ==
    /\ hook.mounted /\ hook.effectRan
    /\ HookCommit([hookDisconnect(HookNow) EXCEPT !.mounted = FALSE],
                  "unmount")

HookSend ==
    /\ hook.mounted /\ hook.effectRan
    /\ HookCommit(sendMessage(HookNow), "send")

HookTransportOpen(s) ==
    /\ hook.sockets[s].state = CONNECTING
    /\ HookCommit(hookOnopen([HookNow EXCEPT !.sockets[s].state = OPEN]),
                  "open")

HookTransportMessage(s, data) ==
    /\ hook.sockets[s].state = OPEN
    /\ HookCommit(hookOnmessage(HookNow, data), "message")

\* the connection of socket s is gone: 'error' first when it failed, then
\* 'close'
HookTransportClose(s, failed) ==
    LET gone == [HookNow EXCEPT !.sockets[s].state =
                     IF hook.wsRef = s THEN CLOSED ELSE FREE]
        h1 == IF failed THEN hookOnerror(gone) ELSE gone
        h2 == hookOnclose(h1, hook.sockets[s].cap)
    IN  /\ hook.sockets[s].state \in SocketStates
        /\ PendingTimeouts(h2) <= MaxHookTimeouts
        /\ HookCommit(h2, "close")

\* a pending timeout fires: the one reconnectTimeoutRef refers to
\* (tracked), or one whose handle has been overwritten
HookTimerFires(cap, tracked) ==
    LET r == hook.timeoutRef
        mine == r.set /\ r.pending /\ r.cap = cap
        h1 == [HookNow EXCEPT !.pending[cap] = @ - 1,
                              !.timeoutRef.pending =
                                  IF tracked THEN FALSE ELSE @]
    IN  /\ IF tracked THEN mine
           ELSE hook.pending[cap] > (IF mine THEN 1 ELSE 0)
        /\ hook.reconnectAttempts < HookAttemptsCap
        /\ HookRoom(h1)
        /\ HookCommit(hookTimerCallback(h1, cap), "timer")

NextHook ==
    \/ HookEffect
    \/ HookRerender
    \/ HookReconnect
    \/ HookDisconnect
    \/ HookUnmount
    \/ HookSend
    \/ \E s \in 1..MaxHookSockets : HookTransportOpen(s)
    \/ \E s \in 1..MaxHookSockets, data \in RawFrames :
          HookTransportMessage(s, data)
    \/ \E s \in 1..MaxHookSockets, failed \in BOOLEAN :
          HookTransportClose(s, failed)
    \/ \E cap \in Caps, tracked \in BOOLEAN : HookTimerFires(cap, tracked)

\* one mounted hook next to a manager that nobody uses
InitHook ==
    /\ InitManager /\ ~ctorThrows /\ subs = AllOk
    /\ hook \in {useWebSocket(urlBad) : urlBad \in BOOLEAN}
    /\ instance = {}
    /\ call = NoCall

SpecHook == InitHook /\ [][NextHook]_vars

\* -------------------------------------------------------------- singleton
Urls == 1..NumUrls

\* the configs a caller passes: url, and any of the optional fields
Configs ==
    {[url |-> u] : u \in Urls}
    \cup {[url |-> u, maxReconnectAttempts |-> 3] : u \in Urls}
    \cup {[url |-> u, heartbeatInterval |-> 1000] : u \in Urls}
    \cup {[url |-> u, maxReconnectAttempts |-> 3, heartbeatInterval |-> 1000] :
             u \in Urls}

\* the defaults of the constructor
Defaults ==
    [reconnectInterval |-> 5000, maxReconnectAttempts |-> 10,
     heartbeatInterval |-> 30000]

\* new WebSocketService(config): the id-th object constructed; its config
\* is the defaults overridden by what was passed
WebSocketService(cfg, id) == [id |-> id, config |-> cfg @@ Defaults]

\* the module state a call starts from
Module == [instance |-> instance, call |-> call]

\* initializeWebSocket that constructs a service on every call
initializeWebSocket_replacing(g, cfg) ==
    LET g1 == [g EXCEPT !.instance =
                            {WebSocketService(cfg, g.call.constructed + 1)},
                        !.call.constructed = @ + 1]
    IN  [g1 EXCEPT !.call.op = "initializeWebSocket",
                   !.call.arg = {cfg},
                   !.call.result = g1.instance,
                   !.call.threw = FALSE,
                   !.call.first = IF @ = {} THEN {cfg} ELSE @]

\* initializeWebSocket(config)
initializeWebSocket(g, cfg) ==
    LET g1 == IF g.instance = {}
              THEN [g EXCEPT !.instance =
                                 {WebSocketService(cfg,
                                                   g.call.constructed + 1)},
                             !.call.constructed = @ + 1]
              ELSE g
    IN  [g1 EXCEPT !.call.op = "initializeWebSocket",
                   !.call.arg = {cfg},
                   !.call.result = g1.instance,
                   !.call.threw = FALSE,
                   !.call.first = IF @ = {} THEN {cfg} ELSE @]

\* getWebSocketService()
getWebSocketService(g) ==
    IF g.instance = {}
    THEN [g EXCEPT !.call.op = "getWebSocketService", !.call.arg = {},
                   !.call.result = {}, !.call.threw = TRUE]
    ELSE [g EXCEPT !.call.op = "getWebSocketService", !.call.arg = {},
                   !.call.result = g.instance, !.call.threw = FALSE]

ModuleCommit(g) ==
    /\ instance' = g.instance
    /\ call' = g.call
    /\ UNCHANGED <<manager, hook>>

Initialize(cfg) == ModuleCommit(initializeWebSocket(Module, cfg))

Get == ModuleCommit(getWebSocketService(Module))

NextSingleton ==
    \/ \E cfg \in Configs : Initialize(cfg)
    \/ Get

\* the module right after it was loaded, next to a manager and a hook that
\* nobody uses
InitSingleton ==
    /\ InitManager /\ ~ctorThrows /\ subs = AllOk
    /\ hook = useWebSocket(FALSE)
    /\ instance = {}
    /\ call = NoCall

SpecSingleton == InitSingleton /\ [][NextSingleton]_vars

TypeOK ==
    /\ ws \in {NULL, CONNECTING, OPEN, CLOSING, CLOSED}
    /\ detached \in [SocketStates -> 0..MaxSessions]
    /\ Live(Now) <= MaxSessions
    /\ reconnectAttempts \in 0..AttemptsCap
    /\ heartbeatTimer \in BOOLEAN
    /\ reconnectTimer \in {"null", "pending", "spent"}
    /\ isIntentionallyClosed \in BOOLEAN
    /\ intervals \in 0..1
    /\ timeouts \in 0..MaxTimeouts
    /\ attemptsRun \in 0..RunCap
    /\ failRun \in 0..RunCap
    /\ completion \in {"return", "throw"}
    /\ stoppedPending \in BOOLEAN
    /\ Len(timerAtEmit) = Len(emitted)

\* ================================================================ claims
Count(S) == Cardinality(S)

\* the WebSockets of the manager that are in state st
InStateCount(w, d, st) == (IF w = st THEN 1 ELSE 0) + d[st]

LiveCount(w, d) ==
    InStateCount(w, d, CONNECTING) + InStateCount(w, d, OPEN)
    + InStateCount(w, d, CLOSING) + InStateCount(w, d, CLOSE_CALLED)

\* a WebSocket is constructed in this step: only the constructor yields a
\* socket that is connecting
Created ==
    InStateCount(ws', detached', CONNECTING) > InStateCount(ws, detached, CONNECTING)

\* the 'error' events of the last callback that do not report a transport
\* failure
TerminalErrors ==
    {i \in DOMAIN emitted : emitted[i].name = "error" /\ emitted[i].arg # "transport"}

\* C1: at most one WebSocket of the manager is Connecting or Open at any
\* time.
C1_AtMostOneSession ==
    InStateCount(ws, detached, CONNECTING) + InStateCount(ws, detached, OPEN) <= 1

\* C2: once disconnect() has set the shutdown flag, no step constructs a
\* WebSocket: no timer callback, no close handler, no later connect().
C2_NoSessionAfterStop == [][isIntentionallyClosed => ~Created]_vars

\* C4: a close that finds the counter at maxReconnectAttempts arms no timer
\* and constructs nothing, and no more than maxReconnectAttempts + 1
\* connection attempts are made in a row without an open in between.
C4_BoundedAttempts ==
    [][/\ note' = "exhausted" => (~Created /\ timeouts' = timeouts)
       /\ attemptsRun' <= maxReconnectAttempts + 1]_vars

\* C5: the close that exhausts the retry budget emits exactly one terminal
\* 'error' event, besides the transport 'error' of that failure.
C5_TerminalError ==
    (op = "close" /\ note = "exhausted") => Count(TerminalErrors) = 1

\* the 'disconnected' events of the callback that has just run
Disconnects == {i \in DOMAIN emitted' : emitted'[i].name = "disconnected"}

C7_DisconnectIdempotent ==
    [][/\ (op = "disconnect" /\ op' = "disconnect") =>
             /\ emitted' = <<>>
             /\ UNCHANGED <<fields, detached, intervals, timeouts>>
       /\ isIntentionallyClosed' =>
             Count(Disconnects) =
                 IF LiveCount(ws', detached') < LiveCount(ws, detached)
                 THEN LiveCount(ws, detached) - LiveCount(ws', detached')
                 ELSE 0]_vars

\* disconnect() has been repeated while the socket it closed is still
\* closing
C7_Witness ==
    /\ op = "disconnect" /\ note = "again"
    /\ ws = NULL
    /\ LiveCount(ws, detached) = 1
    /\ detached[CLOSE_CALLED] = 1

\* C8: every frame a heartbeat tick writes goes to the manager's current
\* socket while that socket is open.
C8_HeartbeatOnlyWhenOpen ==
    op = "heartbeat" =>
        \A i \in DOMAIN written :
            /\ written[i].type = "heartbeat"
            /\ written[i].state = OPEN
            /\ ws = OPEN

\* a heartbeat tick has written its frame
C8_Witness == op = "heartbeat" /\ Len(written) = 1 /\ note = "sent"

\* C9: while a heartbeat timer exists the manager's current socket is open.
C9_TimerImpliesOpen == heartbeatTimer => ws = OPEN

\* C10: the open event of any socket leaves the reconnect counter at 0.
C10_OpenResetsCounter == op = "open" => reconnectAttempts = 0

\* a socket has opened after failed attempts had raised the counter
C10_Witness ==
    /\ op = "open" /\ note = "reset"
    /\ ws = OPEN

\* C3: once started, the manager comes to a state in which an open event
\* has just run, its current socket is open and the counter is 0.
C3_EventuallyOpen ==
    (op = "connect") ~> (op = "open" /\ isConnected(Now) /\ reconnectAttempts = 0)

\* C11: once disconnect() has set the shutdown flag, no callback of the
\* manager (close, error, connect(), a constructor that throws) raises
\* reconnectAttempts.
C11_CounterFrozenAfterStop ==
    [][isIntentionallyClosed => reconnectAttempts' <= reconnectAttempts]_vars

\* the events of the last callback that announce a session
SessionEvents ==
    {i \in DOMAIN emitted' : emitted'[i].name \in {"connected", "disconnected"}}

\* C12: after a disconnect() that found a reconnect delay pending, no
\* 'connected' and no 'disconnected' is emitted and no WebSocket is
\* constructed.
C12_StopCancelsReconnect ==
    [][stoppedPending => SessionEvents = {} /\ ~Created]_vars

\* C13: once disconnect() has returned, no socket event and no timer of the
\* manager delivers an event to a subscriber, whatever the state of the
\* socket was when disconnect() was called.
C13_SilentAfterStop ==
    [][(isIntentionallyClosed /\ src' # "api") => emitted' = <<>>]_vars

\* the close event of this step belongs to a socket that cleanup() closed
ClosedByStop ==
    /\ op' = "close"
    /\ detached'[CLOSE_CALLED] < detached[CLOSE_CALLED]

\* C14: the 'disconnected' of a socket that disconnect() closed carries the
\* reason "client shutdown", which no 'disconnected' of a failed connection
\* carries.
C14_StopReason ==
    [][/\ ClosedByStop =>
             \A i \in Disconnects : emitted'[i].arg.reason = "client shutdown"
       /\ (op' = "close" /\ ~ClosedByStop) =>
             \A i \in Disconnects : emitted'[i].arg.reason # "client shutdown"]_vars

\* the last callback was onmessage for a frame that JSON.parse turned into
\* an envelope {type, payload, timestamp}
DecodedFrame ==
    /\ op = "message"
    /\ emitted # <<>>
    /\ emitted[1].name = "message"
    /\ emitted[1].arg = "envelope"

\* the names of the events of the last callback, in order
EmittedNames == [i \in DOMAIN emitted |-> emitted[i].name]

\* C15: a frame that decodes on an open session is emitted as exactly one
\* 'message' and then exactly one 'message:<type>', and as nothing else.
C15_BothEventsOnce ==
    DecodedFrame => EmittedNames = <<"message", "message:statusUpdate">>

\* C16: every event reaches all subscribers of its name even when one of
\* them raises, and the 'message:<type>' of a decoded frame is emitted even
\* when a 'message' subscriber raised.
C16_SubscriberIsolation ==
    /\ \A i \in DOMAIN emitted :
          emitted[i].delivered = Len(Listeners(emitted[i].name))
    /\ DecodedFrame =>
          \E i \in DOMAIN emitted : emitted[i].name = "message:statusUpdate"

\* the last callback was onmessage for a frame that is no envelope: text
\* that JSON.parse rejects, or JSON of another shape
UndecodedFrame == op = "message" /\ ~DecodedFrame

\* C17: a frame that does not decode causes one 'error' event and nothing
\* else: no other event, the sockets, the counter and both timers are as
\* they were, so the session is still open for the next frame.
C17_DecodeErrorOnly ==
    [][UndecodedFrame' =>
          /\ EmittedNames' = <<"error">>
          /\ UNCHANGED <<fields, detached, intervals, timeouts>>]_vars

\* C18: a frame that is no envelope, valid JSON of another shape included,
\* is reported as an 'error' and is emitted neither as 'message' nor as
\* 'message:<type>'.
C18_NoEventForNonEnvelope ==
    UndecodedFrame =>
        /\ \E i \in DOMAIN emitted : emitted[i].name = "error"
        /\ \A i \in DOMAIN emitted :
              emitted[i].name \notin {"message", "message:statusUpdate",
                                      "message:undefined"}

\* the 'connected' events of the last callback
Connecteds == {i \in DOMAIN emitted' : emitted'[i].name = "connected"}

Exhausted ==
    /\ ~isIntentionallyClosed
    /\ reconnectAttempts >= maxReconnectAttempts
    /\ LiveCount(ws, detached) = 0
    /\ timeouts = 0

\* C20: a manager whose retries are used up constructs no WebSocket any
\* more, whatever is called on it, and so never gets back to an open
\* session.
C20_TerminalAfterExhaustion ==
    [][Exhausted => ~Created /\ ~isConnected(Now)']_vars

\* the callback of this step is an event of a socket that connect() has
\* replaced: cleanup() closes what it detaches, so a detached socket that
\* opens, receives a frame, or closes from CONNECTING or OPEN was replaced
ReplacedSessionEvent ==
    /\ src' = "detached"
    /\ \/ op' \in {"open", "message"}
       \/ /\ op' = "close"
          /\ detached'[CONNECTING] + detached'[OPEN]
                < detached[CONNECTING] + detached[OPEN]

\* C21: an event of a replaced session reaches no subscriber and leaves the
\* counter and both timers of the manager as they were.
C21_ReplacedSessionIsDiscarded ==
    [][ReplacedSessionEvent =>
          /\ emitted' = <<>>
          /\ UNCHANGED <<reconnectAttempts, heartbeatTimer, reconnectTimer,
                         intervals, timeouts>>]_vars

\* the close event of this step ends a session that had been open and that
\* the manager had not closed itself
LeavesOpen ==
    /\ op' = "close"
    /\ InStateCount(ws', detached', OPEN) + InStateCount(ws', detached', CLOSING)
          < InStateCount(ws, detached, OPEN) + InStateCount(ws, detached, CLOSING)

\* C22: the close handler of a session that was open leaves no heartbeat
\* timer behind, and no heartbeat timer exists while a reconnect that a
\* close handler scheduled is pending.
C22_HeartbeatGoneBeforeReconnect ==
    [][/\ LeavesOpen => ~heartbeatTimer' /\ intervals' = 0
       /\ (reconnectTimer' = "pending" /\ ~ctorThrows) => ~heartbeatTimer']_vars

\* C23: while the subscribers of a 'disconnected' event run, no heartbeat
\* timer exists: the close handler has stopped the heartbeat before it
\* emits.
C23_StopBeforeDisconnected ==
    \A i \in DOMAIN emitted :
        emitted[i].name = "disconnected" => ~timerAtEmit[i]

\* C24: a heartbeat tick that finds the current socket not open cancels the
\* heartbeat timer, emits nothing and schedules no reconnect.
C24_HeartbeatStopsItself ==
    [][(op' = "heartbeat" /\ ~isConnected(Now)) =>
          /\ ~heartbeatTimer' /\ intervals' = 0
          /\ emitted' = <<>>
          /\ UNCHANGED <<reconnectAttempts, reconnectTimer, timeouts>>]_vars

\* C25: a manager whose current socket is open has a heartbeat timer: the
\* open event of the current socket starts it, and while the socket stays
\* current and open and disconnect() is not called, no callback cancels it.
C25_HeartbeatWhileOpen ==
    [][/\ (op' = "open" /\ src' = "current") => heartbeatTimer'
       /\ (isConnected(Now) /\ heartbeatTimer
             /\ isConnected(Now)' /\ op' # "disconnect") => heartbeatTimer']_vars

\* C26: reconnectAttempts is never below 0 and never above
\* maxReconnectAttempts, a constructor that throws included.
C26_CounterInRange ==
    reconnectAttempts \in 0..maxReconnectAttempts

\* C27: at most one heartbeat interval and at most one reconnect timeout
\* are armed at a time, and a disconnect() leaves none armed.
C27_TimersBounded ==
    /\ intervals <= 1
    /\ timeouts <= 1
    /\ op = "disconnect" => intervals = 0 /\ timeouts = 0

\* C28: connect() on a manager whose current socket is open constructs
\* nothing, emits nothing and leaves the sockets, the counter and both
\* timers as they were.
C28_ConnectWhileOpenIsNoOp ==
    [][(op' = "connect" /\ isConnected(Now)) =>
          /\ ~Created
          /\ emitted' = <<>> /\ written' = <<>>
          /\ completion' = "return"
          /\ UNCHANGED <<fields, detached, intervals, timeouts>>]_vars

\* connect() has been called on an open session whose heartbeat runs
C28_Witness ==
    /\ op = "connect" /\ note = "already"
    /\ isConnected(Now)
    /\ heartbeatTimer

\* C29: once disconnect() of the hook has been called and connect() has
\* not been called again by the component, the hook constructs no
\* WebSocket and arms no timeout, and no timeout of it is pending.
C29_HookStaysDisconnected ==
    [][(hook.stopped /\ hook'.op \notin {"reconnect", "rerender", "effect"}) =>
          /\ hook'.created = 0
          /\ hook'.armed = 0
          /\ PendingTimeouts(hook') = 0]_vars

\* the service made by the first initializeWebSocket call
FirstInstance == {WebSocketService(cfg, 1) : cfg \in call.first}

\* C30: every initializeWebSocket returns the service the first call
\* constructed, whose config is that of the first call; getWebSocketService
\* returns the same service, and raises when initializeWebSocket has not
\* been called.
C30_SingletonIdempotent ==
    /\ call.op = "initializeWebSocket" =>
          /\ ~call.threw
          /\ instance = FirstInstance
          /\ call.result = FirstInstance
    /\ call.op = "getWebSocketService" =>
          IF call.first = {}
          THEN call.threw /\ call.result = {} /\ instance = {}
          ELSE ~call.threw /\ call.result = FirstInstance
                /\ instance = FirstInstance
    /\ call.constructed <= 1

\* a later initializeWebSocket was passed another config than the first
\* and has returned the service of the first
C30_Witness ==
    /\ call.op = "initializeWebSocket"
    /\ call.first # {}
    /\ call.arg # call.first
    /\ call.result = FirstInstance
    /\ \A i \in call.result, c \in call.arg :
          i.config.url # c.url /\ i.config.maxReconnectAttempts = 10

====
